---------------------------- MODULE Spec2Model ----------------------------
(***************************************************************************)
(* The tool-calling conversation loop of the chat route (handleChatSession *)
(* with its onText / onMessage / onToolUse handlers), the completion       *)
(* adapter (streamConversation) and the history truncation                 *)
(* (getTruncatedHistory).                                                  *)
(***************************************************************************)
EXTENDS Integers, Sequences, FiniteSets, TLC

VARIABLES
    pc,                  \* position of the request in handleChatSession
    iteration,           \* `iteration` of the conversation loop
    conversationHistory, \* the working message list of the request
    productsToDisplay,   \* products accumulated during the turn
    stream,              \* the messages sent with stream.sendMessage, in order
    store,               \* the message store: the stored messages of the conversation
    toolCalls,           \* `toolCalls` of the running streamConversation call
    tcIndex,             \* position of its `for (const toolCall of toolCalls)` loop
    mcpTools,            \* whether mcpClient.tools holds any tool
    log,                 \* history: every call, append and sent event, in order
    budget,              \* environment answers other than the plain one still allowed
    failure,             \* why the request ended with an exception ("none" if it did not)
    loaded,              \* history: what each call of getTruncatedHistory returned
    current,             \* the request whose code is running
    suspended,           \* the state of the other request of the conversation, if any
    fragments,           \* history: the tool-call fragments a provider's stream delivered
    pending,             \* the appends issued to the message store and not yet settled
    providerStream,      \* the chunks of the provider's stream of a completion call
    forwarded            \* history: the text fragments handed to onText, in order

vars == <<pc, iteration, conversationHistory, productsToDisplay, stream, store,
          toolCalls, tcIndex, mcpTools, log, budget, failure, loaded,
          current, suspended, fragments, pending, providerStream, forwarded>>

-----------------------------------------------------------------------------
(* Bounds of the model *)

\* environment answers other than the plain one (faults, extra calls, text
\* before tool calls, non-empty product lists) in one request
MaxBudget == 2
\* tool-call requests in one assistant message
MaxCalls == 2
\* completions of a request during which the environment may spend the
\* budget; from then on the services give the plain answers
RichIterations == 3
\* stored messages of a conversation handed to getTruncatedHistory
MaxStored == 6
\* stored messages of a conversation getTruncatedHistory is called on again
MaxReplayStored == 4
\* calls of getTruncatedHistory on one stored conversation
MaxLoads == 2
\* times the event loop goes from one request of a conversation to the other
MaxYields == 2
\* tool-call fragments in one provider stream
MaxFragments == 3

(* Program constants *)

\* let maxIterations = 10
maxIterations == 10
\* userAndAssistantMessages.slice(-4)
HistoryWindow == 4
\* AppConfig.tools.maxProductsToDisplay || 10
maxProductsToDisplay == 10

-----------------------------------------------------------------------------
(* JavaScript values.  A string is either given by its characters (a       *)
(* sequence of tokens) or is the JSON serialization of a value.            *)

Undefined == [k |-> "undefined"]
Raw(s) == [k |-> "raw", s |-> s]
Json(v) == [k |-> "json", v |-> v]

JStr(s) == [t |-> "string", s |-> s]
JArr(items) == [t |-> "array", items |-> items]
JObj(fields) == [t |-> "object", fields |-> fields]
JNull == [t |-> "null"]

\* the character sequences that are JSON texts (tool-call arguments)
ValidJsonRaw == { <<"{", "}">>, <<"{", "q", "}">> }

\* JSON.parse(c) returns (does not throw SyntaxError)
JSONParseOk(c) ==
    \/ c.k = "json"
    \/ c.k = "raw" /\ c.s \in ValidJsonRaw

\* the value JSON.parse(c) returns
JSONParse(c) == IF c.k = "json" THEN c.v ELSE JObj([query |-> c.s])

\* JSON.stringify(v); JSON.stringify(undefined) is undefined
JSONStringify(v) == Json(v)

-----------------------------------------------------------------------------
(* getTruncatedHistory *)

\* c.type of an array element; reading it of null throws a TypeError
ItemThrows(item) == item.t = "null"
ItemType(item) ==
    IF item.t = "object" /\ "type" \in DOMAIN item.fields
       THEN item.fields.type
       ELSE "undefined"

\* content.every(c => c.type === 'tool_use'): "true", "false" or "throw"
RECURSIVE EveryToolUse(_)
EveryToolUse(items) ==
    IF items = <<>> THEN "true"
    ELSE IF ItemThrows(Head(items)) THEN "throw"
    ELSE IF ItemType(Head(items)) # "tool_use" THEN "false"
    ELSE EveryToolUse(Tail(items))

\* content.some(c => c.type === 'tool_result'): "true", "false" or "throw"
RECURSIVE SomeToolResult(_)
SomeToolResult(items) ==
    IF items = <<>> THEN "false"
    ELSE IF ItemThrows(Head(items)) THEN "throw"
    ELSE IF ItemType(Head(items)) = "tool_result" THEN "true"
    ELSE SomeToolResult(Tail(items))

\* the last line of the filter callback
FilterRoleTest(msg) == msg.role = "user" \/ msg.role = "assistant"

\* the callback of allMessages.filter(...)
FilterKeeps(msg) ==
    IF msg.role = "system" \/ msg.role = "tool" THEN FALSE
    ELSE IF ~JSONParseOk(msg.content) THEN FilterRoleTest(msg)
    ELSE LET content == JSONParse(msg.content)
             isArray == content.t = "array"
         IN  IF msg.role = "assistant" /\ isArray
                THEN CASE EveryToolUse(content.items) = "true" -> FALSE
                       [] EveryToolUse(content.items) = "throw" -> FilterRoleTest(msg)
                       [] OTHER -> FilterRoleTest(msg)
             ELSE IF msg.role = "user" /\ isArray
                THEN CASE SomeToolResult(content.items) = "true" -> FALSE
                       [] OTHER -> FilterRoleTest(msg)
             ELSE FilterRoleTest(msg)

\* the callback of lastMessages.map(...)
FormatForOpenAI(msg) ==
    IF ~JSONParseOk(msg.content)
       THEN [role |-> msg.role, content |-> msg.content]
       ELSE LET content == JSONParse(msg.content)
            IN  IF content.t = "string"
                   THEN [role |-> msg.role, content |-> content.s]
                   ELSE [role |-> msg.role, content |-> JSONStringify(content)]

\* a faulty variant of slice(-4): the whole list
SliceAll(s) == s

\* userAndAssistantMessages.slice(-4)
SliceLast(s) ==
    IF Len(s) <= HistoryWindow THEN s
    ELSE SubSeq(s, Len(s) - HistoryWindow + 1, Len(s))

\* getTruncatedHistory, given what getConversationHistory returned
getTruncatedHistory(allMessages) ==
    LET lastMessages == SliceLast(SelectSeq(allMessages, FilterKeeps))
    IN  [i \in 1..Len(lastMessages) |-> FormatForOpenAI(lastMessages[i])]

-----------------------------------------------------------------------------
(* The completion adapter: streamConversation *)

\* toolCalls[index] = value on a JavaScript array: the array grows, with holes
SetAt(arr, i, v) ==
    [j \in 1..(IF i > Len(arr) THEN i ELSE Len(arr)) |->
        IF j = i THEN v ELSE IF j <= Len(arr) THEN arr[j] ELSE Undefined]

\* lines 78-94: one element of delta.tool_calls accumulated by its index
ApplyFragment(calls, f) ==
    LET i == f.index + 1
        cur == IF i <= Len(calls) /\ calls[i] # Undefined
                  THEN calls[i]
                  ELSE [id |-> f.id, type |-> "function",
                        function |-> [name |-> <<>>, arguments |-> <<>>]]
        named == IF f.name # <<>>
                    THEN [cur EXCEPT !.function.name = f.name]
                    ELSE cur
    IN  SetAt(calls, i,
              IF f.arguments # <<>>
                 THEN [named EXCEPT !.function.arguments = @ \o f.arguments]
                 ELSE named)

RECURSIVE ApplyFragments(_, _)
ApplyFragments(calls, fs) ==
    IF fs = <<>> THEN calls
    ELSE ApplyFragments(ApplyFragment(calls, Head(fs)), Tail(fs))

\* lines 63-100: the for-await loop over the provider's chunks.  acc holds
\* assistantMessage.content, toolCalls and the arguments of the onText calls.
RECURSIVE ProcessStream(_, _)
ProcessStream(chunks, acc) ==
    IF chunks = <<>> THEN acc
    ELSE LET delta == Head(chunks)
             a1 == IF delta.content # <<>>
                      THEN [acc EXCEPT !.content = @ \o delta.content,
                                       !.texts = Append(@, delta.content)]
                      ELSE acc
             a2 == [a1 EXCEPT !.toolCalls = ApplyFragments(@, delta.tool_calls)]
         IN  IF delta.finish_reason THEN a2
             ELSE ProcessStream(Tail(chunks), a2)

StreamResult(chunks) ==
    ProcessStream(chunks, [content |-> <<>>, toolCalls |-> <<>>, texts |-> <<>>])

\* lines 63, 102-105: the assistant message handed to onMessage
AssistantMessage(res) ==
    IF Len(res.toolCalls) > 0
       THEN [role |-> "assistant", content |-> Raw(res.content),
             tool_calls |-> res.toolCalls]
       ELSE [role |-> "assistant", content |-> Raw(res.content)]

\* a faulty variant of the returned stop_reason: the tool calls are not looked at
stop_reasonAlwaysEndTurn(calls) == "end_turn"

\* chatgpt.server.js 134-137: stop_reason of the value streamConversation returns
stop_reason(calls) == IF Len(calls) > 0 THEN "tool_use" ELSE "end_turn"

-----------------------------------------------------------------------------
(* The environment: what the completion service, the tool servers and the  *)
(* message store may answer.  The plain answers are free; every other      *)
(* answer takes one unit of the request's budget.                          *)

NoId == <<>>
\* no other request of the conversation is in progress
NoRequest == [pc |-> "none"]
userMessage == Raw(<<"hi">>)

ToolNames == { <<"get_cart">>, <<"search_shop_catalog">> }
\* a name the completion service may ask for that no connected server lists
UnknownTool == <<"no_such_tool">>
WellFormedArgs == <<"{", "q", "}">>
MalformedArgs == <<"{", "q">>
CallChoices ==
    [name : ToolNames \cup {UnknownTool}, arguments : {WellFormedArgs, MalformedArgs}]

CallCost(c) ==
    (IF c.name # <<"get_cart">> THEN 1 ELSE 0)
    + (IF c.arguments # WellFormedArgs THEN 1 ELSE 0)

RECURSIVE SumCost(_)
SumCost(calls) ==
    IF calls = <<>> THEN 0 ELSE CallCost(Head(calls)) + SumCost(Tail(calls))

TextChoices == { <<>>, << <<"t">> >> }

AnswerCost(a) ==
    IF a.calls = <<>> THEN 0
    ELSE Len(a.texts) + (Len(a.calls) - 1) + SumCost(a.calls)

\* the final messages the completion service may produce with budget b left
Answers(b) ==
    { a \in [texts : TextChoices,
             calls : UNION { [1..n -> CallChoices] : n \in 0..MaxCalls }] :
        AnswerCost(a) <= b }

\* the provider's chunks for an answer: the text fragments, then each call
\* as three fragments (id and name, then the arguments in two parts)
CallDeltas(it, calls) ==
    [j \in 1..(3 * Len(calls)) |->
        LET i == ((j - 1) \div 3) + 1
            part == (j - 1) % 3
            c == calls[i]
        IN  [content |-> <<>>, finish_reason |-> FALSE,
             tool_calls |-> <<
                CASE part = 0 -> [index |-> i - 1, id |-> <<it, i>>,
                                  name |-> c.name, arguments |-> <<>>]
                  [] part = 1 -> [index |-> i - 1, id |-> NoId, name |-> <<>>,
                                  arguments |-> SubSeq(c.arguments, 1, 1)]
                  [] OTHER    -> [index |-> i - 1, id |-> NoId, name |-> <<>>,
                                  arguments |-> SubSeq(c.arguments, 2, Len(c.arguments))]
             >>]]

Chunks(it, a) ==
    [j \in 1..Len(a.texts) |->
        [content |-> a.texts[j], finish_reason |-> FALSE, tool_calls |-> <<>>]]
    \o CallDeltas(it, a.calls)
    \o << [content |-> <<>>, finish_reason |-> TRUE, tool_calls |-> <<>>] >>

\* the products of a search result
ProductCounts == { 0, 3, maxProductsToDisplay + 1 }
Products(id, n) == [i \in 1..n |-> [product_id |-> <<id, i>>]]

TextBlock(text) == [type |-> "text", text |-> text]
\* a response of callTool: `error` of type "none" stands for no error field,
\* of type "throw" for a call that rejects instead of returning
Success(blocks) == [error |-> [type |-> "none", data |-> <<>>], content |-> blocks]
ToolError(type) == [error |-> [type |-> type, data |-> <<"denied">>], content |-> <<>>]
HasError(r) == r.error.type # "none"

\* the Tool Invoker's call fails with ToolNotFound when the name is absent
\* from the resolved catalog: mcpClient.callTool rejects
ToolNotFound == ToolError("not_found")
FailsWithToolNotFound(r) == r.error.type = "not_found"

\* what mcpClient.callTool may answer for a call
ToolOutcomes(name, id, b) ==
    IF name \notin ToolNames THEN { ToolNotFound } ELSE
    (IF name = <<"search_shop_catalog">>
        THEN { Success(<< TextBlock(Json(JObj([products |-> Products(id, n)]))) >>) :
                 n \in ProductCounts }
             \cup { Success(<< TextBlock(Raw(<<"oops">>)) >>) }
        ELSE { Success(<< TextBlock(Raw(<<"cart">>)) >>) })
    \cup (IF b > 0
             THEN { ToolError("auth_required"), ToolError("other"), ToolError("throw") }
             ELSE {})

\* whether an awaited call of the store (or of a tool server) resolves
Resolves(b) == {TRUE} \cup (IF b > 0 THEN {FALSE} ELSE {})

\* the stored conversations a request may start from
EarlierTurn ==
    << [role |-> "user", content |-> Raw(<<"hello">>)],
       [role |-> "assistant",
        content |-> Json(JArr(<< JObj([id |-> <<0, 1>>, type |-> "function"]) >>))],
       [role |-> "tool",
        content |-> Json(JObj([tool_call_id |-> <<0, 1>>, content |-> Raw(<<"cart">>)]))],
       [role |-> "assistant", content |-> Json(JStr(Raw(<<"t">>)))] >>
InitialStores == { <<>>, EarlierTurn }

-----------------------------------------------------------------------------
(* The tool service and the handlers of handleChatSession *)

\* formatProductData: the caller-facing summary of a product
formatProductData(product) == [id |-> product.product_id]

\* a faulty variant of the cut at the configured maximum: every product is taken
TakeAll(products) == products

\* responseData.products.slice(0, AppConfig.tools.maxProductsToDisplay || 10)
TakeMax(products) ==
    IF Len(products) <= maxProductsToDisplay THEN products
    ELSE SubSeq(products, 1, maxProductsToDisplay)

IsTextBlock(item) == item.type = "text"

\* processProductSearchResult: [] when there is no text block, when its text
\* does not parse, or when it holds no products array
processProductSearchResult(toolUseResponse) ==
    LET texts == SelectSeq(toolUseResponse.content, IsTextBlock)
    IN  IF texts = <<>> THEN <<>>
        ELSE LET content == texts[1].text
             IN  IF ~JSONParseOk(content) THEN <<>>
                 ELSE LET responseData == JSONParse(content)
                      IN  IF /\ responseData.t = "object"
                             /\ "products" \in DOMAIN responseData.fields
                             THEN LET ps == TakeMax(responseData.fields.products)
                                  IN  [i \in 1..Len(ps) |-> formatProductData(ps[i])]
                             ELSE <<>>

\* .filter(item => item.type === 'text').map(item => item.text).join('\n')
JoinText(blocks) ==
    LET texts == SelectSeq(blocks, IsTextBlock)
    IN  IF texts = <<>> THEN Raw(<<>>)
        ELSE IF Len(texts) = 1 THEN texts[1].text
        ELSE [k |-> "join", parts |-> [i \in 1..Len(texts) |-> texts[i].text]]

\* lines 338-366: toolResultContent of a tool response
ToolResultContent(toolUseResponse) ==
    IF HasError(toolUseResponse)
       THEN Raw(<<"Error: ">> \o toolUseResponse.error.data)
       ELSE JoinText(toolUseResponse.content)

\* JSON.stringify(message.content || message.tool_calls) of onMessage
StoredAssistantContent(message) ==
    IF message.content.s # <<>> THEN JSONStringify(JStr(message.content))
    ELSE IF "tool_calls" \in DOMAIN message
       THEN JSONStringify(JArr(
              [i \in 1..Len(message.tool_calls) |->
                  IF message.tool_calls[i] = Undefined THEN JNull
                  ELSE JObj(message.tool_calls[i])]))
       ELSE Undefined

Ev(type) == [type |-> type, products |-> <<>>]
Entry(op, type, id) == [op |-> op, type |-> type, id |-> id]
Sent(type, id) == Entry("send", type, id)

-----------------------------------------------------------------------------
(* handleChatSession, one action per step between two awaits *)

\* the budget the environment may spend in iteration it of the loop
Allowance(it) == IF it <= RichIterations THEN budget ELSE 0

Init ==
    /\ pc = "start"
    /\ iteration = 0
    /\ conversationHistory = <<>>
    /\ productsToDisplay = <<>>
    /\ stream = <<>>
    /\ store \in InitialStores
    /\ toolCalls = <<>>
    /\ tcIndex = 0
    /\ mcpTools = FALSE
    /\ log = <<>>
    /\ budget = MaxBudget
    /\ failure = "none"
    /\ loaded = <<>>
    /\ current = 1
    /\ suspended = NoRequest
    /\ fragments = <<>>
    /\ pending = <<>>
    /\ providerStream = <<>>
    /\ forwarded = <<>>

\* a faulty variant of the start: the connection is awaited before any event
\* is sent, and the id event is left out
StartWithoutId ==
    /\ pc = "start"
    /\ pc' = "connect"
    /\ UNCHANGED <<iteration, conversationHistory, productsToDisplay, stream, store,
                   toolCalls, tcIndex, mcpTools, log, budget, failure, loaded,
                   current, suspended, fragments, pending, providerStream, forwarded>>

\* line 270: the id event, then the connection to the tool servers is awaited
Start ==
    /\ pc = "start"
    /\ stream' = Append(stream, Ev("id"))
    /\ log' = Append(log, Sent("id", NoId))
    /\ pc' = "connect"
    /\ UNCHANGED <<iteration, conversationHistory, productsToDisplay, store,
                   toolCalls, tcIndex, mcpTools, budget, failure, loaded,
                   current, suspended, fragments,
                   pending, providerStream, forwarded>>

\* lines 273-280: a failed connection is caught; the tools of a server that
\* did connect stay in mcpClient.tools
Connect ==
    /\ pc = "connect"
    /\ \E ok \in Resolves(budget) :
          /\ budget' = IF ok THEN budget ELSE budget - 1
          /\ mcpTools' \in (IF ok THEN {TRUE} ELSE {TRUE, FALSE})
          /\ log' = Append(log, Entry("connect", IF ok THEN "ok" ELSE "failed", NoId))
    /\ pc' = "saveUser"
    /\ UNCHANGED <<iteration, conversationHistory, productsToDisplay, stream, store,
                   toolCalls, tcIndex, failure, loaded, current, suspended, fragments,
                   pending, providerStream, forwarded>>

\* line 285: await saveMessage(conversationId, 'user', userMessage); a
\* rejection leaves handleChatSession through its catch, which rethrows
SaveUser ==
    /\ pc = "saveUser"
    /\ \E ok \in Resolves(budget) :
          /\ budget' = IF ok THEN budget ELSE budget - 1
          /\ store' = IF ok THEN Append(store, [role |-> "user", content |-> userMessage])
                            ELSE store
          /\ log' = Append(log, Entry("save", "user", IF ok THEN <<1>> ELSE <<0>>))
          /\ pc' = IF ok THEN "load" ELSE "failed"
          /\ failure' = IF ok THEN failure ELSE "store"
    /\ UNCHANGED <<iteration, conversationHistory, productsToDisplay, stream,
                   toolCalls, tcIndex, mcpTools, loaded, current, suspended, fragments,
                   pending, providerStream, forwarded>>

\* lines 411-466: what a call of getTruncatedHistory returns, given whether
\* its read of the store resolved: the catch returns []
Returned(ok, stored) ==
    [ok |-> ok, messages |-> IF ok THEN getTruncatedHistory(stored) ELSE <<>>]

\* lines 288-291: the truncated history (empty when reading the store fails),
\* then the push of the current user message
LoadHistory ==
    /\ pc = "load"
    /\ \E ok \in Resolves(budget) :
          /\ budget' = IF ok THEN budget ELSE budget - 1
          /\ loaded' = Append(loaded, Returned(ok, store))
          /\ conversationHistory' =
                Append(Returned(ok, store).messages,
                       [role |-> "user", content |-> userMessage])
    /\ log' = Append(log, Entry("push", "user", NoId))
    /\ pc' = "loop"
    /\ UNCHANGED <<iteration, productsToDisplay, stream, store, toolCalls, tcIndex,
                   mcpTools, failure, current, suspended, fragments,
                   pending, providerStream, forwarded>>

\* a faulty variant of the loop test: one iteration more
LoopTestOffByOne == iteration <= maxIterations

\* line 297: while (iteration < maxIterations)
LoopTest == iteration < maxIterations

\* line 297, the test fails: the loop is left at the ceiling
LoopExit ==
    /\ pc = "loop"
    /\ ~LoopTest
    /\ pc' = "end"
    /\ UNCHANGED <<iteration, conversationHistory, productsToDisplay, stream, store,
                   toolCalls, tcIndex, mcpTools, log, budget, failure, loaded,
                   current, suspended, fragments,
                   pending, providerStream, forwarded>>

\* the events of one completion: a chunk per onText call, then message_complete
ChunkEvents(texts) == [i \in 1..Len(texts) |-> Ev("chunk")]
ChunkEntries(texts) == [i \in 1..Len(texts) |-> Sent("chunk", NoId)]

\* a faulty variant of the step after a failed completion call: the error is
\* caught inside the loop, which goes on to its next iteration
AfterCompletionFailureRetry == "loop"

\* lines 297-402: no statement of the loop catches the error of
\* streamConversation; the outer catch rethrows it
AfterCompletionFailure == "failed"

\* lines 298-300 and chatgpt.server.js 53-100: the completion call rejects,
\* or the provider's stream breaks after some text; the error leaves
\* streamConversation and handleChatSession
CompletionFails ==
    /\ pc = "loop"
    /\ LoopTest
    /\ Allowance(iteration + 1) > 0
    /\ iteration' = iteration + 1
    /\ budget' = budget - 1
    /\ \E texts \in TextChoices :
          /\ stream' = stream \o ChunkEvents(texts)
          /\ log' = log \o << Entry("completion", "failed", <<iteration + 1>>) >>
                        \o ChunkEntries(texts)
    /\ pc' = AfterCompletionFailure
    /\ failure' = "provider"
    /\ UNCHANGED <<conversationHistory, productsToDisplay, store,
                   toolCalls, tcIndex, mcpTools, loaded, current, suspended, fragments,
                   pending, providerStream, forwarded>>

\* a faulty variant of onMessage: message_complete is sent before the message
\* is pushed
OnMessageEntriesSendFirst(it, ncalls, saved) ==
    << Sent("message_complete", NoId),
       Entry("push", "assistant", <<it, ncalls>>),
       Entry("save", "assistant", IF saved THEN <<1>> ELSE <<0>>) >>

\* lines 314-323: onMessage pushes the message, issues its save and sends
\* message_complete
OnMessageEntries(it, ncalls, saved) ==
    << Entry("push", "assistant", <<it, ncalls>>),
       Entry("save", "assistant", IF saved THEN <<1>> ELSE <<0>>),
       Sent("message_complete", NoId) >>

\* lines 298-323 and chatgpt.server.js 53-116: the completion call, the
\* provider's stream (onText per text fragment) and onMessage
Completion ==
    /\ pc = "loop"
    /\ LoopTest
    /\ iteration' = iteration + 1
    /\ \E a \in Answers(Allowance(iteration + 1)), saved \in BOOLEAN :
          /\ mcpTools \/ a.calls = <<>>
          /\ saved \/ Allowance(iteration + 1) - AnswerCost(a) > 0
          /\ LET res == StreamResult(Chunks(iteration + 1, a))
                 message == AssistantMessage(res)
             IN  /\ budget' = budget - AnswerCost(a) - (IF saved THEN 0 ELSE 1)
                 /\ conversationHistory' = Append(conversationHistory, message)
                 /\ store' = IF saved
                                THEN Append(store,
                                       [role |-> "assistant",
                                        content |-> StoredAssistantContent(message)])
                                ELSE store
                 /\ stream' = stream \o ChunkEvents(res.texts)
                                     \o << Ev("message_complete") >>
                 /\ log' = log \o << Entry("completion", "ok", <<iteration + 1>>) >>
                               \o ChunkEntries(res.texts)
                               \o OnMessageEntries(iteration + 1, Len(res.toolCalls), saved)
                 /\ toolCalls' = res.toolCalls
    /\ tcIndex' = 1
    /\ pc' = "tools"
    /\ UNCHANGED <<productsToDisplay, mcpTools, failure, loaded, current, suspended,
                   fragments,
                   pending, providerStream, forwarded>>

\* a faulty variant of the end of an iteration: the break is missing
AfterToolsNoBreak(n) == "loop"

\* lines 386-390: break when the response carries no tool call, else the
\* loop test again
AfterTools(n) == IF n = 0 THEN "end" ELSE "loop"

\* chatgpt.server.js 119-137 and lines 386-390: no tool call is left; the
\* response is returned and the loop ends unless it carries tool calls
ToolsDone ==
    /\ pc = "tools"
    /\ tcIndex > Len(toolCalls)
    /\ pc' = AfterTools(Len(toolCalls))
    /\ UNCHANGED <<iteration, conversationHistory, productsToDisplay, stream, store,
                   toolCalls, tcIndex, mcpTools, log, budget, failure, loaded,
                   current, suspended, fragments,
                   pending, providerStream, forwarded>>

\* a faulty variant of the catch: it encloses the whole loop over the tool
\* calls, so the first failure ends the loop
AfterFailedCallBreak(i, n) == n + 1

\* chatgpt.server.js 120-131: the try/catch is inside the loop body; after
\* a failure of call i (of n) the loop goes on with the next call
AfterFailedCall(i, n) == i + 1

\* JSON.parse(toolCall.function.arguments) of the current tool call throws
\* (as does reading .function of a hole of the array)
ArgumentsThrow ==
    IF toolCalls[tcIndex] = Undefined THEN TRUE
    ELSE ~JSONParseOk(Raw(toolCalls[tcIndex].function.arguments))

\* chatgpt.server.js 120-131: the arguments do not parse; the catch logs the
\* error and the loop goes to the next tool call
ToolSkip ==
    /\ pc = "tools"
    /\ tcIndex <= Len(toolCalls)
    /\ ArgumentsThrow
    /\ tcIndex' = AfterFailedCall(tcIndex, Len(toolCalls))
    /\ log' = Append(log, Entry("skip", "malformed", <<iteration, tcIndex>>))
    /\ UNCHANGED <<pc, iteration, conversationHistory, productsToDisplay, stream,
                   store, toolCalls, mcpTools, budget, failure, loaded,
                   current, suspended, fragments,
                   pending, providerStream, forwarded>>

\* lines 325-336: onToolUse sends tool_use and awaits mcpClient.callTool
ToolUse ==
    /\ pc = "tools"
    /\ tcIndex <= Len(toolCalls)
    /\ ~ArgumentsThrow
    /\ stream' = Append(stream, Ev("tool_use"))
    /\ log' = log \o << Sent("tool_use", toolCalls[tcIndex].id),
                         Entry("callTool", "", toolCalls[tcIndex].id) >>
    /\ pc' = "callTool"
    /\ UNCHANGED <<iteration, conversationHistory, productsToDisplay, store,
                   toolCalls, tcIndex, mcpTools, budget, failure, loaded,
                   current, suspended, fragments,
                   pending, providerStream, forwarded>>

IsThrow(r) == r.error.type = "throw" \/ FailsWithToolNotFound(r)
IsAuthRequired(r) == r.error.type = "auth_required"

\* a faulty variant of the step after a tool response: an auth_required error waits
\* for the authorization and never returns
AfterToolResponseAuthWaits(r) == IF IsAuthRequired(r) THEN "waitAuth" ELSE "saveTool"

\* lines 368-379: after any tool response the result is pushed and its save awaited
AfterToolResponse(r) == "saveTool"

\* a faulty variant of the error branch: the auth_required event is not sent
AuthEventsNone(r, id) == <<>>

\* lines 341-346: the events of a tool response before its result is pushed
AuthEvents(r, id) ==
    IF IsAuthRequired(r) THEN << Sent("auth_required", id) >> ELSE <<>>

\* lines 336-379: mcpClient.callTool returns (or throws, which the catch of
\* streamConversation logs); the result is pushed and its save awaited
ToolReturn ==
    /\ pc = "callTool"
    /\ LET toolCall == toolCalls[tcIndex]
           toolName == toolCall.function.name
           toolUseId == toolCall.id
       IN  \E r \in ToolOutcomes(toolName, toolUseId, Allowance(iteration)) :
             IF IsThrow(r)
                THEN /\ budget' = IF FailsWithToolNotFound(r) THEN budget ELSE budget - 1
                     /\ log' = Append(log, Entry("toolResponse", r.error.type, toolUseId))
                     /\ tcIndex' = AfterFailedCall(tcIndex, Len(toolCalls))
                     /\ pc' = "tools"
                     /\ UNCHANGED <<conversationHistory, productsToDisplay, stream>>
                ELSE /\ budget' = IF HasError(r) THEN budget - 1 ELSE budget
                     /\ stream' = stream \o
                           [i \in 1..Len(AuthEvents(r, toolUseId)) |-> Ev("auth_required")]
                     /\ productsToDisplay' =
                           IF ~HasError(r) /\ toolName = <<"search_shop_catalog">>
                              THEN productsToDisplay \o processProductSearchResult(r)
                              ELSE productsToDisplay
                     /\ conversationHistory' =
                           Append(conversationHistory,
                                  [role |-> "tool", tool_call_id |-> toolUseId,
                                   content |-> ToolResultContent(r)])
                     /\ log' = log \o << Entry("toolResponse", r.error.type, toolUseId) >>
                                   \o AuthEvents(r, toolUseId)
                                   \o << Entry("push", "tool", toolUseId) >>
                     /\ pc' = AfterToolResponse(r)
                     /\ UNCHANGED tcIndex
    /\ UNCHANGED <<iteration, store, toolCalls, mcpTools, failure, loaded, current, suspended,
                   fragments,
                   pending, providerStream, forwarded>>

\* lines 375-381: the awaited save of the tool result resolves and
\* new_message is sent, or it rejects and the catch of streamConversation
\* logs the error
ToolSaved ==
    /\ pc = "saveTool"
    /\ LET toolUseId == toolCalls[tcIndex].id
           result == conversationHistory[Len(conversationHistory)]
       IN  \E ok \in Resolves(Allowance(iteration)) :
             /\ budget' = IF ok THEN budget ELSE budget - 1
             /\ store' = IF ok
                            THEN Append(store,
                                   [role |-> "tool",
                                    content |-> JSONStringify(JObj(
                                       [tool_call_id |-> toolUseId,
                                        content |-> result.content]))])
                            ELSE store
             /\ stream' = IF ok THEN Append(stream, Ev("new_message")) ELSE stream
             /\ log' = log \o << Entry("save", "tool", IF ok THEN <<1>> ELSE <<0>>) >>
                           \o (IF ok THEN << Sent("new_message", toolUseId) >> ELSE <<>>)
             /\ tcIndex' = IF ok THEN tcIndex + 1
                                 ELSE AfterFailedCall(tcIndex, Len(toolCalls))
    /\ pc' = "tools"
    /\ UNCHANGED <<iteration, conversationHistory, productsToDisplay, toolCalls,
                   mcpTools, failure, loaded, current, suspended, fragments,
                   pending, providerStream, forwarded>>

\* a faulty variant of the end of the turn: the products are sent before end_turn
EndEventsProductsFirst(products) ==
    (IF Len(products) > 0
        THEN << [type |-> "product_results", products |-> products] >>
        ELSE <<>>)
    \o << Ev("end_turn") >>

\* a faulty variant of the end of the turn: end_turn is sent again after the products
EndEventsRepeated(products) ==
    << Ev("end_turn") >>
    \o (IF Len(products) > 0
           THEN << [type |-> "product_results", products |-> products],
                   Ev("end_turn") >>
           ELSE <<>>)

\* lines 392-399: end_turn, then product_results when products were accumulated
EndEvents(products) ==
    << Ev("end_turn") >>
    \o (IF Len(products) > 0
           THEN << [type |-> "product_results", products |-> products] >>
           ELSE <<>>)

EndTurn ==
    /\ pc = "end"
    /\ stream' = stream \o EndEvents(productsToDisplay)
    /\ log' = log \o [i \in 1..Len(EndEvents(productsToDisplay)) |->
                          Sent(EndEvents(productsToDisplay)[i].type, NoId)]
    /\ pc' = "done"
    /\ UNCHANGED <<iteration, conversationHistory, productsToDisplay, store,
                   toolCalls, tcIndex, mcpTools, budget, failure, loaded,
                   current, suspended, fragments,
                   pending, providerStream, forwarded>>

Next ==
    \/ Start
    \/ Connect
    \/ SaveUser
    \/ LoadHistory
    \/ LoopExit
    \/ CompletionFails
    \/ Completion
    \/ ToolsDone
    \/ ToolSkip
    \/ ToolUse
    \/ ToolReturn
    \/ ToolSaved
    \/ EndTurn

Spec == Init /\ [][Next]_vars

\* the event loop runs every continuation whose awaited call has settled
FairSpec == Spec /\ WF_vars(Next)

-----------------------------------------------------------------------------
(* getTruncatedHistory on its own, applied to any stored conversation *)

StoredSamples ==
    { [role |-> "user", content |-> Raw(<<"hello">>)],
      [role |-> "user", content |-> Json(JArr(<< JObj([type |-> "tool_result"]) >>))],
      [role |-> "assistant", content |-> Json(JStr(Raw(<<"t">>)))],
      [role |-> "assistant",
       content |-> Json(JArr(<< JObj([id |-> <<0, 1>>, type |-> "function"]) >>))],
      [role |-> "assistant", content |-> Json(JArr(<< JObj([type |-> "tool_use"]) >>))],
      [role |-> "tool",
       content |-> Json(JObj([tool_call_id |-> <<0, 1>>, content |-> Raw(<<"cart">>)]))],
      [role |-> "system", content |-> Raw(<<"persona">>)] }

StoredConversations == UNION { [1..n -> StoredSamples] : n \in 0..MaxStored }

TruncInit ==
    /\ pc = "truncate"
    /\ store \in StoredConversations
    /\ iteration = 0
    /\ conversationHistory = <<>>
    /\ productsToDisplay = <<>>
    /\ stream = <<>>
    /\ toolCalls = <<>>
    /\ tcIndex = 0
    /\ mcpTools = FALSE
    /\ log = <<>>
    /\ budget = 0
    /\ failure = "none"
    /\ loaded = <<>>
    /\ current = 1
    /\ suspended = NoRequest
    /\ fragments = <<>>
    /\ pending = <<>>
    /\ providerStream = <<>>
    /\ forwarded = <<>>

\* a faulty variant of the call: the stored conversation is cut down to the
\* messages the call keeps
TruncatedHistoryCallTrimming ==
    /\ pc = "truncate"
    /\ \E ok \in BOOLEAN :
          /\ loaded' = Append(loaded, Returned(ok, store))
          /\ conversationHistory' = Returned(ok, store).messages
          /\ store' = IF ok THEN SliceLast(SelectSeq(store, FilterKeeps)) ELSE store
          /\ log' = Append(log, Entry("load", IF ok THEN "ok" ELSE "failed", NoId))
          /\ pc' = IF ok THEN "truncated" ELSE "truncateFailed"
    /\ UNCHANGED <<iteration, productsToDisplay, stream, toolCalls, tcIndex,
                   mcpTools, budget, failure, current, suspended, fragments,
                   pending, providerStream, forwarded>>

\* lines 410-467: a call of getTruncatedHistory: reading the store succeeds
\* and the list is filtered, cut and formatted; or it throws and the catch
\* returns [].  The store is only read.
TruncatedHistoryCall ==
    /\ pc = "truncate"
    /\ \E ok \in BOOLEAN :
          /\ loaded' = Append(loaded, Returned(ok, store))
          /\ conversationHistory' = Returned(ok, store).messages
          /\ log' = Append(log, Entry("load", IF ok THEN "ok" ELSE "failed", NoId))
          /\ pc' = IF ok THEN "truncated" ELSE "truncateFailed"
    /\ UNCHANGED <<iteration, productsToDisplay, stream, store, toolCalls, tcIndex,
                   mcpTools, budget, failure, current, suspended, fragments,
                   pending, providerStream, forwarded>>

TruncNext == TruncatedHistoryCall

TruncSpec == TruncInit /\ [][TruncNext]_vars

-----------------------------------------------------------------------------
(* getTruncatedHistory called again on the same conversation, with or      *)
(* without an append to the stored conversation in between                 *)

ReplayConversations == UNION { [1..n -> StoredSamples] : n \in 0..MaxReplayStored }

ReplayInit ==
    /\ pc = "truncate"
    /\ store \in ReplayConversations
    /\ iteration = 0
    /\ conversationHistory = <<>>
    /\ productsToDisplay = <<>>
    /\ stream = <<>>
    /\ toolCalls = <<>>
    /\ tcIndex = 0
    /\ mcpTools = FALSE
    /\ log = <<>>
    /\ budget = 0
    /\ failure = "none"
    /\ loaded = <<>>
    /\ current = 1
    /\ suspended = NoRequest
    /\ fragments = <<>>
    /\ pending = <<>>
    /\ providerStream = <<>>
    /\ forwarded = <<>>

\* line 288 in a later request: the function is called again
CallAgain ==
    /\ pc \in {"truncated", "truncateFailed"}
    /\ Len(loaded) < MaxLoads
    /\ pc' = "truncate"
    /\ UNCHANGED <<iteration, conversationHistory, productsToDisplay, stream, store,
                   toolCalls, tcIndex, mcpTools, log, budget, failure, loaded,
                   current, suspended, fragments,
                   pending, providerStream, forwarded>>

\* line 285: saveMessage appends the user message of a request to the stored
\* conversation
MessageAppended ==
    /\ pc \in {"truncate", "truncated", "truncateFailed"}
    /\ Len(store) <= MaxReplayStored
    /\ store' = Append(store, [role |-> "user", content |-> userMessage])
    /\ log' = Append(log, Entry("save", "user", <<1>>))
    /\ UNCHANGED <<pc, iteration, conversationHistory, productsToDisplay, stream,
                   toolCalls, tcIndex, mcpTools, budget, failure, loaded,
                   current, suspended, fragments,
                   pending, providerStream, forwarded>>

ReplayNext ==
    \/ TruncatedHistoryCall
    \/ CallAgain
    \/ MessageAppended

ReplaySpec == ReplayInit /\ [][ReplayNext]_vars

-----------------------------------------------------------------------------
(* Two requests of one conversation.  handleChatRequest starts a           *)
(* handleChatSession per request and nothing makes one wait for the other: *)
(* while a request awaits a call, the continuations of the other run.  The *)
(* message store and the log are shared; everything else is per request.   *)

\* the state of a request that has not started
NewRequest ==
    [pc |-> "start", iteration |-> 0, conversationHistory |-> <<>>,
     productsToDisplay |-> <<>>, stream |-> <<>>, toolCalls |-> <<>>,
     tcIndex |-> 0, mcpTools |-> FALSE, budget |-> 0, failure |-> "none"]

\* the state of the running request
RunningRequest ==
    [pc |-> pc, iteration |-> iteration, conversationHistory |-> conversationHistory,
     productsToDisplay |-> productsToDisplay, stream |-> stream,
     toolCalls |-> toolCalls, tcIndex |-> tcIndex, mcpTools |-> mcpTools,
     budget |-> budget, failure |-> failure]

ConcurrentInit ==
    /\ pc = "start"
    /\ iteration = 0
    /\ conversationHistory = <<>>
    /\ productsToDisplay = <<>>
    /\ stream = <<>>
    /\ store \in InitialStores
    /\ toolCalls = <<>>
    /\ tcIndex = 0
    /\ mcpTools = FALSE
    /\ log = <<>>
    /\ budget = 0
    /\ failure = "none"
    /\ loaded = <<>>
    /\ current = 1
    /\ suspended = NewRequest
    /\ fragments = <<>>
    /\ pending = <<>>
    /\ providerStream = <<>>
    /\ forwarded = <<>>

\* the running request is at an await: of the connection, of a save, of the
\* store's read, of the completion service or of a tool; or it has ended
AtAwait ==
    \/ pc \in {"connect", "saveUser", "load", "callTool", "saveTool", "done", "failed"}
    \/ pc = "loop" /\ LoopTest

\* lines 230-238: the event loop runs the other request while this one waits
Yield ==
    /\ AtAwait
    /\ suspended.pc \notin {"done", "failed"}
    /\ Cardinality({ i \in DOMAIN log : log[i].op = "yield" }) < MaxYields
    /\ pc' = suspended.pc
    /\ iteration' = suspended.iteration
    /\ conversationHistory' = suspended.conversationHistory
    /\ productsToDisplay' = suspended.productsToDisplay
    /\ stream' = suspended.stream
    /\ toolCalls' = suspended.toolCalls
    /\ tcIndex' = suspended.tcIndex
    /\ mcpTools' = suspended.mcpTools
    /\ budget' = suspended.budget
    /\ failure' = suspended.failure
    /\ suspended' = RunningRequest
    /\ current' = 3 - current
    /\ log' = Append(log, Entry("yield", "", <<3 - current>>))
    /\ UNCHANGED <<store, loaded, fragments,
                   pending, providerStream, forwarded>>

\* both requests get the plain answers of the services
ConcurrentNext ==
    \/ Start
    \/ Connect
    \/ SaveUser
    \/ LoadHistory
    \/ LoopExit
    \/ Completion
    \/ ToolsDone
    \/ ToolUse
    \/ ToolReturn
    \/ ToolSaved
    \/ EndTurn
    \/ Yield

ConcurrentSpec == ConcurrentInit /\ [][ConcurrentNext]_vars

-----------------------------------------------------------------------------
(* The reassembly of tool calls in streamConversation on its own, applied  *)
(* to any sequence of fragments                                            *)

\* the elements of delta.tool_calls a provider's stream may deliver
Fragments ==
    [index : 0..(MaxCalls - 1),
     id : {NoId, <<1, 1>>},
     name : { <<>>, <<"get_">>, <<"cart">> },
     arguments : { <<>>, <<"{">>, <<"}">> }]

FragInit ==
    /\ pc = "stream"
    /\ iteration = 0
    /\ conversationHistory = <<>>
    /\ productsToDisplay = <<>>
    /\ stream = <<>>
    /\ store = <<>>
    /\ toolCalls = <<>>
    /\ tcIndex = 0
    /\ mcpTools = TRUE
    /\ log = <<>>
    /\ budget = 0
    /\ failure = "none"
    /\ loaded = <<>>
    /\ current = 1
    /\ suspended = NoRequest
    /\ fragments = <<>>
    /\ pending = <<>>
    /\ providerStream = <<>>
    /\ forwarded = <<>>

\* chatgpt.server.js 77-95: one element of delta.tool_calls arrives and is
\* accumulated into toolCalls
FragmentArrives ==
    /\ pc = "stream"
    /\ Len(fragments) < MaxFragments
    /\ \E f \in Fragments :
          /\ fragments' = Append(fragments, f)
          /\ toolCalls' = ApplyFragment(toolCalls, f)
    /\ UNCHANGED <<pc, iteration, conversationHistory, productsToDisplay, stream,
                   store, tcIndex, mcpTools, log, budget, failure, loaded,
                   current, suspended,
                   pending, providerStream, forwarded>>

FragNext == FragmentArrives

FragSpec == FragInit /\ [][FragNext]_vars

-----------------------------------------------------------------------------
(* streamConversation on its own, applied to any stream of the provider:   *)
(* text and tool-call fragments in any order, finish_reason anywhere       *)

MaxChunks == 3

\* the chunks a provider's stream may deliver
ProviderChunks ==
    [content : { <<>>, <<"a">>, <<"b">> },
     finish_reason : BOOLEAN,
     tool_calls : { <<>>,
                    << [index |-> 0, id |-> <<1, 1>>, name |-> <<"get_cart">>,
                        arguments |-> WellFormedArgs] >>,
                    << [index |-> 1, id |-> <<1, 2>>, name |-> <<"get_cart">>,
                        arguments |-> MalformedArgs] >> }]

ProviderStreams == UNION { [1..n -> ProviderChunks] : n \in 0..MaxChunks }

StreamInit ==
    /\ pc = "streaming"
    /\ iteration = 1
    /\ conversationHistory = <<>>
    /\ productsToDisplay = <<>>
    /\ stream = <<>>
    /\ store = <<>>
    /\ toolCalls = <<>>
    /\ tcIndex = 0
    /\ mcpTools = TRUE
    /\ log = <<>>
    /\ budget = 0
    /\ failure = "none"
    /\ loaded = <<>>
    /\ current = 1
    /\ suspended = NoRequest
    /\ fragments = <<>>
    /\ pending = <<>>
    /\ providerStream \in ProviderStreams
    /\ forwarded = <<>>

\* chatgpt.server.js 63-116 with the handlers of lines 307-323: the for-await
\* loop over the provider's stream (onText per text fragment), then onMessage
StreamConversation ==
    /\ pc = "streaming"
    /\ LET res == StreamResult(providerStream)
           message == AssistantMessage(res)
       IN  /\ forwarded' = res.texts
           /\ conversationHistory' = Append(conversationHistory, message)
           /\ store' = Append(store, [role |-> "assistant",
                                      content |-> StoredAssistantContent(message)])
           /\ stream' = stream \o ChunkEvents(res.texts) \o << Ev("message_complete") >>
           /\ log' = log \o << Entry("completion", "ok", <<iteration>>) >>
                         \o ChunkEntries(res.texts)
                         \o OnMessageEntries(iteration, Len(res.toolCalls), TRUE)
           /\ toolCalls' = res.toolCalls
    /\ tcIndex' = 1
    /\ pc' = "tools"
    /\ UNCHANGED <<iteration, productsToDisplay, mcpTools, budget, failure, loaded,
                   current, suspended, fragments, pending, providerStream>>

\* chatgpt.server.js 134-137: after the loop over the tool calls the message
\* is returned with its stop_reason
StreamReturns ==
    /\ pc = "tools"
    /\ tcIndex > Len(toolCalls)
    /\ log' = Append(log, Entry("return", stop_reason(toolCalls), NoId))
    /\ pc' = "returned"
    /\ UNCHANGED <<iteration, conversationHistory, productsToDisplay, stream, store,
                   toolCalls, tcIndex, mcpTools, budget, failure, loaded,
                   current, suspended, fragments, pending, providerStream, forwarded>>

StreamNext ==
    \/ StreamConversation
    \/ ToolSkip
    \/ ToolUse
    \/ ToolReturn
    \/ ToolSaved
    \/ StreamReturns

StreamSpec == StreamInit /\ [][StreamNext]_vars

-----------------------------------------------------------------------------
(* One request with the appends to the message store in flight: saveMessage *)
(* issues an append, which the store settles later, in any order relative  *)
(* to the other appends in flight and to the steps of the request          *)

\* the completion service asks for tool calls in the first iterations only
MaxAsyncRounds == 2

AsyncInit ==
    /\ pc = "start"
    /\ iteration = 0
    /\ conversationHistory = <<>>
    /\ productsToDisplay = <<>>
    /\ stream = <<>>
    /\ store \in InitialStores
    /\ toolCalls = <<>>
    /\ tcIndex = 0
    /\ mcpTools = FALSE
    /\ log = <<>>
    /\ budget = 0
    /\ failure = "none"
    /\ loaded = <<>>
    /\ current = 1
    /\ suspended = NoRequest
    /\ fragments = <<>>
    /\ pending = <<>>
    /\ providerStream = <<>>
    /\ forwarded = <<>>

Issued(role, content, id) == [role |-> role, content |-> content, id |-> id]
InFlight(role) == \E i \in DOMAIN pending : pending[i].role = role

\* the message store settles one of the appends in flight
AppendSettles ==
    /\ \E i \in DOMAIN pending :
          /\ store' = Append(store, [role |-> pending[i].role,
                                     content |-> pending[i].content])
          /\ log' = Append(log, Entry("stored", pending[i].role, pending[i].id))
          /\ pending' = SubSeq(pending, 1, i - 1) \o SubSeq(pending, i + 1, Len(pending))
    /\ UNCHANGED <<pc, iteration, conversationHistory, productsToDisplay, stream,
                   toolCalls, tcIndex, mcpTools, budget, failure, loaded,
                   current, suspended, fragments, providerStream, forwarded>>

\* line 285: saveMessage(conversationId, 'user', userMessage) is called
UserSaveIssued ==
    /\ pc = "saveUser"
    /\ pending' = Append(pending, Issued("user", userMessage, NoId))
    /\ log' = Append(log, Entry("issue", "user", NoId))
    /\ pc' = "awaitUser"
    /\ UNCHANGED <<iteration, conversationHistory, productsToDisplay, stream, store,
                   toolCalls, tcIndex, mcpTools, budget, failure, loaded,
                   current, suspended, fragments, providerStream, forwarded>>

\* line 285: the await of that call; the request goes on once it has settled
UserSaveAwaited ==
    /\ pc = "awaitUser"
    /\ ~InFlight("user")
    /\ pc' = "load"
    /\ UNCHANGED <<iteration, conversationHistory, productsToDisplay, stream, store,
                   toolCalls, tcIndex, mcpTools, log, budget, failure, loaded,
                   current, suspended, fragments, pending, providerStream, forwarded>>

\* lines 298-323 and chatgpt.server.js 53-116: the completion call, onText
\* per text fragment and onMessage, whose saveMessage call is not awaited
CompletionSaveInFlight ==
    /\ pc = "loop"
    /\ LoopTest
    /\ iteration' = iteration + 1
    /\ \E a \in Answers(0) :
          /\ mcpTools \/ a.calls = <<>>
          /\ iteration < MaxAsyncRounds \/ a.calls = <<>>
          /\ LET res == StreamResult(Chunks(iteration + 1, a))
                 message == AssistantMessage(res)
                 id == <<iteration + 1, Len(res.toolCalls)>>
             IN  /\ conversationHistory' = Append(conversationHistory, message)
                 /\ pending' = Append(pending,
                        Issued("assistant", StoredAssistantContent(message), id))
                 /\ stream' = stream \o ChunkEvents(res.texts)
                                     \o << Ev("message_complete") >>
                 /\ log' = log \o << Entry("completion", "ok", <<iteration + 1>>) >>
                               \o ChunkEntries(res.texts)
                               \o << Entry("push", "assistant", id),
                                     Entry("issue", "assistant", id),
                                     Sent("message_complete", NoId) >>
                 /\ toolCalls' = res.toolCalls
    /\ tcIndex' = 1
    /\ pc' = "tools"
    /\ UNCHANGED <<productsToDisplay, store, mcpTools, budget, failure, loaded,
                   current, suspended, fragments, providerStream, forwarded>>

\* lines 375-379: saveMessage(conversationId, 'tool', ...) is called
ToolSaveIssued ==
    /\ pc = "saveTool"
    /\ LET toolUseId == toolCalls[tcIndex].id
           result == conversationHistory[Len(conversationHistory)]
       IN  /\ pending' = Append(pending,
                  Issued("tool",
                         JSONStringify(JObj([tool_call_id |-> toolUseId,
                                             content |-> result.content])),
                         toolUseId))
           /\ log' = Append(log, Entry("issue", "tool", toolUseId))
    /\ pc' = "awaitTool"
    /\ UNCHANGED <<iteration, conversationHistory, productsToDisplay, stream, store,
                   toolCalls, tcIndex, mcpTools, budget, failure, loaded,
                   current, suspended, fragments, providerStream, forwarded>>

\* lines 376-381: the await of that call, then new_message
ToolSaveAwaited ==
    /\ pc = "awaitTool"
    /\ ~InFlight("tool")
    /\ stream' = Append(stream, Ev("new_message"))
    /\ log' = Append(log, Sent("new_message", toolCalls[tcIndex].id))
    /\ tcIndex' = tcIndex + 1
    /\ pc' = "tools"
    /\ UNCHANGED <<iteration, conversationHistory, productsToDisplay, store,
                   toolCalls, mcpTools, budget, failure, loaded,
                   current, suspended, fragments, pending, providerStream, forwarded>>

\* the steps of handleChatSession and of its handlers
RequestStep ==
    \/ Start
    \/ Connect
    \/ UserSaveIssued
    \/ UserSaveAwaited
    \/ LoadHistory
    \/ CompletionSaveInFlight
    \/ ToolsDone
    \/ ToolUse
    \/ ToolReturn
    \/ ToolSaveIssued
    \/ ToolSaveAwaited
    \/ EndTurn

AsyncNext == RequestStep \/ AppendSettles

AsyncSpec == AsyncInit /\ [][AsyncNext]_vars

-----------------------------------------------------------------------------
(* The tool service on its own: handleToolError, handleToolSuccess and      *)
(* addToolResultToHistory, called with a working list and a tool response   *)

MaxServiceCalls == 2

\* the working lists the tool service may be handed
WorkingLists ==
    { <<>>,
      << [role |-> "user", content |-> userMessage] >>,
      << [role |-> "user", content |-> userMessage],
         [role |-> "assistant", content |-> Raw(<<"t">>)] >> }

ToolUseIds == { <<1, 1>>, <<1, 2>> }

ToolServiceInit ==
    /\ pc = "toolService"
    /\ iteration = 0
    /\ conversationHistory \in WorkingLists
    /\ productsToDisplay = <<>>
    /\ stream = <<>>
    /\ store \in InitialStores
    /\ toolCalls = <<>>
    /\ tcIndex = 0
    /\ mcpTools = TRUE
    /\ log = <<>>
    /\ budget = 0
    /\ failure = "none"
    /\ loaded = <<>>
    /\ current = 1
    /\ suspended = NoRequest
    /\ fragments = <<>>
    /\ pending = <<>>
    /\ providerStream = <<>>
    /\ forwarded = <<>>

ServiceCalls == Cardinality({ i \in DOMAIN log : log[i].op = "call" })

\* a faulty variant of addToolResultToHistory: the message is pushed
HistoryWithToolResult(history, toolResultMessage) == Append(history, toolResultMessage)

\* lines 121-144: toolResultMessage is built and not pushed to conversationHistory
HistoryAfterToolResult(history, toolResultMessage) == history

\* a faulty variant of the save: its rejection leaves addToolResultToHistory
SaveFailurePropagates(ok) == IF ok THEN "none" ELSE "store"

\* lines 131-138: a rejected saveMessage is caught and logged
SaveFailureCaught(ok) == "none"

\* lines 121-144: addToolResultToHistory; conversationId may be missing, and
\* the save (ok) may be rejected
addToolResultToHistory(toolUseId, content, conversationId, ok) ==
    LET toolResultMessage ==
            [role |-> "tool", tool_call_id |-> toolUseId, content |-> content]
    IN  /\ conversationHistory' =
               HistoryAfterToolResult(conversationHistory, toolResultMessage)
        /\ store' = IF conversationId /\ ok
                       THEN Append(store,
                              [role |-> "tool",
                               content |-> JSONStringify(JObj(
                                  [tool_call_id |-> toolUseId, content |-> content]))])
                       ELSE store
        /\ failure' = IF conversationId THEN SaveFailureCaught(ok) ELSE "none"

\* the log of a call of the tool service
ServiceEntries(name, toolUseId, conversationId, ok) ==
    << Entry("call", name, toolUseId) >>
    \o (IF conversationId
           THEN << Entry("save", "tool", IF ok THEN <<1>> ELSE <<0>>) >>
           ELSE <<>>)

\* a call of addToolResultToHistory by a user of the tool service
AddToolResult ==
    /\ pc = "toolService"
    /\ ServiceCalls < MaxServiceCalls
    /\ \E toolUseId \in ToolUseIds, content \in { Raw(<<"cart">>), Raw(<<>>) },
          conversationId \in BOOLEAN, ok \in BOOLEAN :
          /\ conversationId \/ ok
          /\ addToolResultToHistory(toolUseId, content, conversationId, ok)
          /\ log' = log \o ServiceEntries("addToolResultToHistory", toolUseId,
                                           conversationId, ok)
    /\ UNCHANGED <<pc, iteration, productsToDisplay, stream, toolCalls, tcIndex,
                   mcpTools, budget, loaded, current, suspended, fragments,
                   pending, providerStream, forwarded>>

\* lines 16-25: handleToolError saves error.data and sends auth_required for
\* an error of that type
handleToolError ==
    /\ pc = "toolService"
    /\ ServiceCalls < MaxServiceCalls
    /\ \E toolUseId \in ToolUseIds,
          toolUseResponse \in { ToolError("auth_required"), ToolError("other") },
          conversationId \in BOOLEAN, ok \in BOOLEAN :
          /\ conversationId \/ ok
          /\ addToolResultToHistory(toolUseId, Raw(toolUseResponse.error.data),
                                    conversationId, ok)
          /\ stream' = IF IsAuthRequired(toolUseResponse)
                          THEN Append(stream, Ev("auth_required"))
                          ELSE stream
          /\ log' = log \o ServiceEntries("handleToolError", toolUseId,
                                           conversationId, ok)
                        \o (IF IsAuthRequired(toolUseResponse)
                               THEN << Sent("auth_required", toolUseId) >>
                               ELSE <<>>)
    /\ UNCHANGED <<pc, iteration, productsToDisplay, toolCalls, tcIndex,
                   mcpTools, budget, loaded, current, suspended, fragments,
                   pending, providerStream, forwarded>>

\* lines 30-52: handleToolSuccess accumulates the products of a search and
\* saves the text of the response
handleToolSuccess ==
    /\ pc = "toolService"
    /\ ServiceCalls < MaxServiceCalls
    /\ \E toolUseId \in ToolUseIds, toolName \in ToolNames,
          conversationId \in BOOLEAN, ok \in BOOLEAN :
          \E toolUseResponse \in ToolOutcomes(toolName, toolUseId, 0) :
              /\ conversationId \/ ok
              /\ productsToDisplay' =
                    IF toolName = <<"search_shop_catalog">>
                       THEN productsToDisplay \o processProductSearchResult(toolUseResponse)
                       ELSE productsToDisplay
              /\ addToolResultToHistory(toolUseId, JoinText(toolUseResponse.content),
                                        conversationId, ok)
              /\ log' = log \o ServiceEntries("handleToolSuccess", toolUseId,
                                               conversationId, ok)
    /\ UNCHANGED <<pc, iteration, stream, toolCalls, tcIndex,
                   mcpTools, budget, loaded, current, suspended, fragments,
                   pending, providerStream, forwarded>>

ToolServiceNext ==
    \/ AddToolResult
    \/ handleToolError
    \/ handleToolSuccess

ToolServiceSpec == ToolServiceInit /\ [][ToolServiceNext]_vars

-----------------------------------------------------------------------------
(* What the claims speak of *)

EventCount(type) == Cardinality({ i \in DOMAIN stream : stream[i].type = type })
LogCount(op, type) ==
    Cardinality({ i \in DOMAIN log : log[i].op = op /\ log[i].type = type })
CompletionCalls == Cardinality({ i \in DOMAIN log : log[i].op = "completion" })

\* the position of the last event of a type in the stream, 0 if there is none
LastEvent(type) ==
    LET at == { i \in DOMAIN stream : stream[i].type = type }
    IN  IF at = {} THEN 0 ELSE CHOOSE i \in at : \A j \in at : j <= i

\* the events sent since the last message_complete
SinceMessage == SubSeq(stream, LastEvent("message_complete") + 1, Len(stream))

\* the working list after its last assistant message
AfterAssistant ==
    LET at == { i \in DOMAIN conversationHistory :
                  conversationHistory[i].role = "assistant" }
        last == IF at = {} THEN 0 ELSE CHOOSE i \in at : \A j \in at : j <= i
    IN  SubSeq(conversationHistory, last + 1, Len(conversationHistory))

\* the tool calls of the last completion have all been gone through
ToolsProcessed == pc \in {"loop", "end"} /\ iteration > 0

\* every completion of the request so far asked for at least one tool call
AlwaysToolCalls ==
    \A i \in DOMAIN log :
        log[i].op = "push" /\ log[i].type = "assistant" => log[i].id[2] > 0

\* no append to the message store has failed
AppendsSucceeded == \A i \in DOMAIN log : log[i].op = "save" => log[i].id = <<1>>

-----------------------------------------------------------------------------
(* The claims *)

C2_ToolUsePairs ==
    ToolsProcessed =>
        /\ Len(SinceMessage) = 2 * Len(toolCalls)
        /\ \A i \in 1..Len(toolCalls) :
              /\ SinceMessage[2 * i - 1].type = "tool_use"
              /\ SinceMessage[2 * i].type \in {"new_message", "auth_required"}

\* C3: when a completion call is about to start after an assistant message
\* with N tool-call requests, the working list holds after that message
\* exactly N tool messages, one per request id.
C3_AllResultsAppended ==
    (pc = "loop" /\ iteration > 0 /\ LoopTest) =>
        /\ Len(AfterAssistant) = Len(toolCalls)
        /\ \A i \in 1..Len(toolCalls) :
              /\ AfterAssistant[i].role = "tool"
              /\ AfterAssistant[i].tool_call_id = toolCalls[i].id

\* the bound of C4 in one state
C4_Bounded ==
    /\ CompletionCalls <= maxIterations
    /\ iteration = CompletionCalls
    /\ (pc = "loop" /\ AlwaysToolCalls /\ ~LoopTest) => CompletionCalls = maxIterations
    /\ (pc = "done" /\ AlwaysToolCalls) =>
          /\ CompletionCalls = maxIterations
          /\ EventCount("end_turn") = 1

\* C4: the loop makes at most maxIterations completion calls; when every
\* completion asked for a tool call the request returns after exactly
\* maxIterations of them, with end_turn sent; and every request stops: it
\* returns, or ends with an exception.
C4_IterationCeiling ==
    /\ []C4_Bounded
    /\ <>(pc = "done" \/ failure # "none")

\* C4 witness: the ceiling is reached and the request returns with end_turn
C4_Witness ==
    /\ pc = "done"
    /\ AlwaysToolCalls
    /\ CompletionCalls = maxIterations
    /\ stream[Len(stream)].type = "end_turn"

\* C5: no event of any kind follows end_turn in the stream (product_results
\* is sent before or at end_turn).
C5_NothingAfterEndTurn ==
    \A i \in DOMAIN stream : stream[i].type = "end_turn" => i = Len(stream)

\* the turn of the example: two completions, the first with one well-formed
\* search_shop_catalog call whose result holds 3 products, the second with
\* plain text; the tool servers connected and every append succeeded
SearchExample ==
    /\ pc = "done"
    /\ CompletionCalls = 2
    /\ LogCount("completion", "failed") = 0
    /\ LogCount("connect", "failed") = 0
    /\ AppendsSucceeded
    /\ \E i \in DOMAIN conversationHistory :
          /\ i + 2 = Len(conversationHistory)
          /\ conversationHistory[i].role = "assistant"
          /\ "tool_calls" \in DOMAIN conversationHistory[i]
          /\ Len(conversationHistory[i].tool_calls) = 1
          /\ conversationHistory[i].tool_calls[1].function =
                [name |-> <<"search_shop_catalog">>, arguments |-> WellFormedArgs]
          /\ conversationHistory[i + 1].role = "tool"
          /\ conversationHistory[i + 1].content =
                Json(JObj([products |->
                             Products(conversationHistory[i].tool_calls[1].id, 3)]))
          /\ conversationHistory[i + 2].role = "assistant"
          /\ "tool_calls" \notin DOMAIN conversationHistory[i + 2]

IsNotChunk(e) == e.type # "chunk"

\* C6: in the turn of the example the events after `id` are chunk*,
\* message_complete, tool_use, new_message, chunk*, message_complete,
\* end_turn, product_results with 3 items.
C6_ExampleOrder ==
    SearchExample =>
        LET others == SelectSeq(stream, IsNotChunk)
        IN  /\ [i \in DOMAIN others |-> others[i].type] =
                  << "id", "message_complete", "tool_use", "new_message",
                     "message_complete", "end_turn", "product_results" >>
            /\ stream[1].type = "id"
            /\ \A i \in DOMAIN stream :
                  stream[i].type = "chunk" =>
                     /\ i < Len(stream)
                     /\ stream[i + 1].type \in {"chunk", "message_complete"}
            /\ Len(stream[Len(stream)].products) = 3

\* C6 witness: the turn of the example with text in both completions
C6_Witness == SearchExample /\ EventCount("chunk") = 2

\* a tool call of the request was answered with an auth_required error
AuthRequiredReturned ==
    \E i \in DOMAIN log : log[i].op = "toolResponse" /\ log[i].type = "auth_required"

\* C7: a tool call answered with an auth_required error puts an
\* auth_required event on the stream, and the turn then reaches end_turn
\* unless a later completion call fails.
C7_AuthRequiredReachesEnd ==
    /\ [](\A i \in DOMAIN log :
            log[i].op = "toolResponse" /\ log[i].type = "auth_required"
               => /\ i < Len(log)
                  /\ log[i + 1] = Sent("auth_required", log[i].id)
                  /\ EventCount("auth_required") > 0)
    /\ (AuthRequiredReturned ~> (EventCount("end_turn") = 1 \/ failure = "provider"))

\* C7 witness: an auth_required event was sent and the turn reached end_turn
C7_Witness ==
    /\ AuthRequiredReturned
    /\ EventCount("auth_required") = 1
    /\ pc = "done"
    /\ EventCount("end_turn") = 1

\* the tool call at position i of toolCalls has arguments that do not parse
Malformed(i) ==
    /\ toolCalls[i] # Undefined
    /\ ~JSONParseOk(Raw(toolCalls[i].function.arguments))

\* C8: when the arguments of a tool-call request do not parse, the tool is
\* not invoked, and an error result with that call's id is in the working
\* list before the next completion call.
C8_MalformedGetsResult ==
    ToolsProcessed =>
        \A i \in 1..Len(toolCalls) :
            Malformed(i) =>
                /\ \A j \in DOMAIN log :
                      log[j].op = "callTool" => log[j].id # toolCalls[i].id
                /\ \E j \in DOMAIN AfterAssistant :
                      /\ AfterAssistant[j].role = "tool"
                      /\ AfterAssistant[j].tool_call_id = toolCalls[i].id

\* C9: a failed append to the message store never aborts or alters the
\* turn: the request does not end with the store's exception, and a failed
\* append of a tool result is followed by new_message as a successful one is.
C9_AppendFailureHarmless ==
    /\ failure # "store"
    /\ \A i \in DOMAIN log :
          (log[i].op = "save" /\ log[i].type = "tool")
             => /\ i < Len(log)
                /\ log[i + 1].op = "send"
                /\ log[i + 1].type = "new_message"

NthLoad(k) ==
    CHOOSE p \in DOMAIN log :
        /\ log[p].op = "load"
        /\ Cardinality({ q \in 1..p : log[q].op = "load" }) = k

\* a message was appended to the stored conversation between the i-th and
\* the j-th call of getTruncatedHistory
AppendBetween(i, j) ==
    \E p \in DOMAIN log :
        NthLoad(i) < p /\ p < NthLoad(j) /\ log[p].op = "save"

\* a call of getTruncatedHistory leaves the stored conversation as it was
LoadKeepsStore == [][Len(loaded') > Len(loaded) => store' = store]_vars

NotInCatalog(i) ==
    /\ toolCalls[i] # Undefined
    /\ toolCalls[i].function.name \notin ToolNames
    /\ ~Malformed(i)

\* a tool call of the request failed with ToolNotFound
ToolNotFoundReturned ==
    \E i \in DOMAIN log : log[i].op = "toolResponse" /\ log[i].type = "not_found"

\* C12: when a completion asks for a tool whose name is absent from the
\* catalog, a tool message with that call's id and the error as content is
\* in the working list once the tool calls are gone through, and the turn
\* goes on to the next completion call and to end_turn (unless a later
\* completion call fails).
C12_ToolNotFoundAppended ==
    /\ [](ToolsProcessed =>
            \A i \in 1..Len(toolCalls) :
                NotInCatalog(i) =>
                    \E j \in DOMAIN AfterAssistant :
                        /\ AfterAssistant[j].role = "tool"
                        /\ AfterAssistant[j].tool_call_id = toolCalls[i].id)
    /\ (ToolNotFoundReturned ~> (EventCount("end_turn") = 1 \/ failure = "provider"))

\* a completion call of the request has failed
CompletionFailed ==
    \E i \in DOMAIN log : log[i].op = "completion" /\ log[i].type = "failed"

\* C13: after a completion call fails the request makes no further
\* completion call and no tool invocation and sends no end_turn, and it has
\* ended with the provider's error.
C13_ProviderFailureFatal ==
    /\ \A i \in DOMAIN log :
          (log[i].op = "completion" /\ log[i].type = "failed")
             => \A j \in (i + 1)..Len(log) :
                   /\ log[j].op \notin {"completion", "callTool"}
                   /\ log[j] # Sent("end_turn", NoId)
    /\ CompletionFailed =>
          /\ pc = "failed"
          /\ failure = "provider"
          /\ EventCount("end_turn") = 0
    /\ failure = "provider" => CompletionFailed

\* C13 witness: the second completion call of a request fails, after a tool
\* was invoked and text of the failing completion was forwarded
C13_Witness ==
    /\ CompletionFailed
    /\ CompletionCalls = 2
    /\ LogCount("callTool", "") > 0
    /\ stream[Len(stream)].type = "chunk"
    /\ pc = "failed"

\* the request that made the log entry at position p
Requester(p) ==
    LET before == { q \in 1..p : log[q].op = "yield" }
    IN  IF before = {} THEN 1
        ELSE log[CHOOSE q \in before : \A q2 \in before : q2 <= q].id[1]

\* the positions in the log of the messages persisted in the store
Persisted == { p \in DOMAIN log : log[p].op = "save" /\ log[p].id = <<1>> }

\* C14: the messages two concurrent requests of one conversation persist
\* are not interleaved in the store: no message of one request lies between
\* two messages of the other.
C14_PersistenceSerialized ==
    \A p \in Persisted : \A q \in Persisted : \A r \in Persisted :
        (p < q /\ q < r) => ~(Requester(p) = Requester(r) /\ Requester(q) # Requester(p))

\* a stored message that onMessage persisted, in a request of this behaviour,
\* for a completion with tool-call requests and no text: its content is the
\* serialized tool_calls array
PersistedToolCallsOnly(msg) ==
    /\ msg.role = "assistant"
    /\ msg.content.k = "json"
    /\ msg.content.v.t = "array"
    /\ msg.content.v.items[1].t = "object"
    /\ msg.content.v.items[1].fields.id[1] > 0

\* C15: an assistant message persisted for a completion with tool-call
\* requests and no text is in no list that getTruncatedHistory returns to a
\* later request of the conversation.
C15_ToolCallsOnlyDropped ==
    \A k \in DOMAIN loaded : \A i \in DOMAIN store :
        PersistedToolCallsOnly(store[i]) =>
            \A j \in DOMAIN loaded[k].messages :
                loaded[k].messages[j] # FormatForOpenAI(store[i])

\* the tool call at position i of toolCalls was dispatched: onToolUse called
\* mcpClient.callTool for it
Dispatched(i) ==
    /\ toolCalls[i] # Undefined
    /\ \E p \in DOMAIN log : log[p] = Entry("callTool", "", toolCalls[i].id)

\* the tool call at position i of toolCalls was skipped by the catch because
\* its own arguments do not parse
Skipped(i) ==
    \E p \in DOMAIN log : log[p] = Entry("skip", "malformed", <<iteration, i>>)

\* the tool call at position i of toolCalls failed: malformed arguments, an
\* error response, a thrown exception, or a rejected save of its result
FailedCall(i) ==
    \/ Skipped(i)
    \/ /\ toolCalls[i] # Undefined
       /\ \E p \in DOMAIN log :
             \/ /\ log[p].op = "toolResponse"
                /\ log[p].id = toolCalls[i].id
                /\ log[p].type # "none"
             \/ /\ p < Len(log)
                /\ log[p] = Entry("push", "tool", toolCalls[i].id)
                /\ log[p + 1] = Entry("save", "tool", <<0>>)

\* C16: before the next completion call every tool-call request of the
\* assistant message has been gone through, whatever happened to the
\* requests before it: it was dispatched to its tool, or (its own arguments
\* not parsing) skipped.
C16_AllCallsProcessed ==
    ToolsProcessed =>
        \A i \in 1..Len(toolCalls) :
            IF toolCalls[i] = Undefined \/ Malformed(i)
               THEN Skipped(i) /\ ~Dispatched(i)
               ELSE Dispatched(i)

\* C16 witness: the first of two tool calls failed and the second was
\* dispatched before the next completion call
C16_Witness ==
    /\ pc = "loop"
    /\ iteration > 0
    /\ Len(toolCalls) = 2
    /\ FailedCall(1)
    /\ Dispatched(2)

\* the position in the log of the entry e, 0 if there is none
LogAt(e) ==
    LET at == { p \in DOMAIN log : log[p] = e }
    IN  IF at = {} THEN 0 ELSE CHOOSE p \in at : \A q \in at : p <= q

\* the tool_call_id of the tool messages after the last assistant message
ResultIds == [j \in DOMAIN AfterAssistant |-> AfterAssistant[j].tool_call_id]

\* C17: the tool calls of an assistant message are dispatched one at a time
\* in the order received; the tool_use event of a call comes right before
\* its invocation; its tool message is pushed before its new_message or
\* auth_required event and before the tool_use of the next call; so the
\* tool messages after the assistant message carry the request ids in
\* request order.
C17_DispatchOrder ==
    (pc \in {"tools", "callTool", "saveTool", "loop", "end"} /\ iteration > 0) =>
        /\ \A i \in 1..Len(toolCalls) :
              Dispatched(i) =>
                 LET id == toolCalls[i].id
                     used == LogAt(Sent("tool_use", id))
                     called == LogAt(Entry("callTool", "", id))
                     pushed == LogAt(Entry("push", "tool", id))
                     told == LogAt(Sent("new_message", id))
                     auth == LogAt(Sent("auth_required", id))
                 IN  /\ used > 0 /\ called = used + 1
                     /\ told > 0 => (pushed > 0 /\ pushed < told)
                     /\ auth > 0 => (pushed > 0 /\ pushed < auth)
                     /\ \A j \in 1..Len(toolCalls) :
                           (i < j /\ Dispatched(j)) =>
                              LET next == LogAt(Sent("tool_use", toolCalls[j].id))
                              IN  /\ called < next
                                  /\ pushed < next
                                  /\ told < next
                                  /\ auth < next
        /\ \A j, k \in DOMAIN ResultIds :
              j < k => \E a, b \in 1..Len(toolCalls) :
                          /\ a < b
                          /\ toolCalls[a].id = ResultIds[j]
                          /\ toolCalls[b].id = ResultIds[k]

\* the number of tool-call requests of the last completion's final message
\* (-1 before the first one)
LastAnswerCalls ==
    LET at == { p \in DOMAIN log : log[p].op = "push" /\ log[p].type = "assistant" }
    IN  IF at = {} THEN -1
        ELSE log[CHOOSE p \in at : \A q \in at : q <= p].id[2]

\* the transitions of C18 in one state
C18_Transitions ==
    /\ \A p \in DOMAIN log :
          (log[p].op = "push" /\ log[p].type = "assistant" /\ log[p].id[2] = 0)
             => \A q \in (p + 1)..Len(log) : log[q].op \notin {"completion", "callTool"}
    /\ (LastAnswerCalls = 0 /\ failure = "none") => pc \in {"tools", "end", "done"}
    /\ (pc = "loop" /\ iteration > 0) => LastAnswerCalls > 0
    /\ (pc = "loop" /\ LoopTest) => ENABLED Completion
    /\ EventCount("end_turn") > 0 =>
          (LastAnswerCalls = 0 \/ CompletionCalls = maxIterations)

\* C18: after a completion without tool-call requests no completion call
\* and no tool invocation follows and the loop ends; after a completion with
\* tool-call requests, fewer than maxIterations completions having run, the
\* tools are gone through and another completion call is made (the loop
\* test passes again, the call can be made and only a call leaves that
\* point); end_turn is sent only after a completion without tool calls or
\* after maxIterations completions.
C18_LoopTransitions ==
    /\ []C18_Transitions
    /\ ((pc = "tools" /\ Len(toolCalls) = 0) ~> pc = "done")
    /\ ((pc = "tools" /\ Len(toolCalls) > 0 /\ LoopTest) ~> (pc = "loop" /\ LoopTest))
    /\ [][(pc = "loop" /\ LoopTest /\ pc' # "loop")
             => CompletionCalls' = CompletionCalls + 1]_vars

\* C18 witness: a completion with a tool call, then one without, then the end
C18_Witness ==
    /\ pc = "done"
    /\ CompletionCalls = 2
    /\ LastAnswerCalls = 0
    /\ LogCount("callTool", "") = 1

\* the last position of the log entries of the completion call logged at p
SegmentEnd(p) ==
    LET later == { q \in (p + 1)..Len(log) : log[q].op = "completion" }
    IN  IF later = {} THEN Len(log)
        ELSE (CHOOSE q \in later : \A q2 \in later : q <= q2) - 1

\* the positions of the message_complete events of the completion call at p
CompleteAt(p) ==
    { q \in (p + 1)..SegmentEnd(p) : log[q] = Sent("message_complete", NoId) }

\* C19: a completion call that returns its final message sends exactly one
\* message_complete (a call that fails sends none); it comes after every
\* chunk and before every tool_use of that completion, and after the push
\* of the assistant message to the working list.
C19_MessageCompleteOrder ==
    /\ EventCount("message_complete") = LogCount("completion", "ok")
    /\ \A p \in DOMAIN log :
          log[p].op = "completion" =>
             IF log[p].type = "failed" THEN CompleteAt(p) = {}
             ELSE /\ Cardinality(CompleteAt(p)) = 1
                  /\ \A m \in CompleteAt(p) : \A q \in (p + 1)..SegmentEnd(p) :
                        /\ log[q] = Sent("chunk", NoId) => q < m
                        /\ (log[q].op = "send" /\ log[q].type = "tool_use") => m < q
                        /\ \E a \in (p + 1)..(m - 1) :
                              /\ log[a].op = "push"
                              /\ log[a].type = "assistant"
                              /\ log[a].id[1] = log[p].id[1]

\* C19 witness: a completion with text and a dispatched tool call: chunk,
\* push, message_complete, tool_use
C19_Witness ==
    \E p \in DOMAIN log :
        /\ log[p] = Entry("completion", "ok", <<1>>)
        /\ \E c, m, u \in (p + 1)..SegmentEnd(p) :
              /\ c < m /\ m < u
              /\ log[c] = Sent("chunk", NoId)
              /\ log[m] = Sent("message_complete", NoId)
              /\ log[u].op = "send" /\ log[u].type = "tool_use"

\* the name fragments received for a call index, joined in arrival order
RECURSIVE NameOf(_, _)
NameOf(fs, index) ==
    IF fs = <<>> THEN <<>>
    ELSE (IF Head(fs).index = index THEN Head(fs).name ELSE <<>>)
         \o NameOf(Tail(fs), index)

\* the argument fragments received for a call index, joined in arrival order
RECURSIVE ArgumentsOf(_, _)
ArgumentsOf(fs, index) ==
    IF fs = <<>> THEN <<>>
    ELSE (IF Head(fs).index = index THEN Head(fs).arguments ELSE <<>>)
         \o ArgumentsOf(Tail(fs), index)

\* the call indexes of the fragments received
IndexesOf(fs) == { fs[k].index : k \in DOMAIN fs }

\* C20: for every sequence of tool-call fragments and every call index in
\* it, the name and the arguments of the reassembled tool call are the
\* name fragments and the argument fragments of that index joined in
\* arrival order, and the reassembled list has one entry per distinct index.
C20_FragmentsReassembled ==
    pc = "stream" =>
        /\ Len(toolCalls) = Cardinality(IndexesOf(fragments))
        /\ \A index \in IndexesOf(fragments) :
              /\ index + 1 <= Len(toolCalls)
              /\ toolCalls[index + 1] # Undefined
              /\ toolCalls[index + 1].function.name = NameOf(fragments, index)
              /\ toolCalls[index + 1].function.arguments = ArgumentsOf(fragments, index)

-----------------------------------------------------------------------------
\* the chunks the for-await loop reads: up to the first one with a finish_reason
Consumed ==
    LET fin == { i \in DOMAIN providerStream : providerStream[i].finish_reason }
    IN  IF fin = {} THEN providerStream
        ELSE SubSeq(providerStream, 1, CHOOSE i \in fin : \A j \in fin : i <= j)

HasText(chunk) == chunk.content # <<>>

\* the text fragments of the chunks read, in arrival order
ArrivedTexts ==
    LET withText == SelectSeq(Consumed, HasText)
    IN  [i \in 1..Len(withText) |-> withText[i].content]

RECURSIVE Concat(_)
Concat(texts) == IF texts = <<>> THEN <<>> ELSE Head(texts) \o Concat(Tail(texts))

\* the messages handed to onMessage
FinalMessages == SelectSeq(conversationHistory, LAMBDA m : m.role = "assistant")

CarriesToolCalls(message) ==
    "tool_calls" \in DOMAIN message /\ Len(message.tool_calls) > 0

\* C21: for every stream of the provider that ends, each text fragment read
\* is handed to onText exactly once and in arrival order (a fragment after the
\* finish_reason is not read), one chunk event each; exactly one final message
\* is handed to onMessage, its content is the concatenation of the forwarded
\* fragments, and the returned stop_reason is tool_use exactly when the final
\* message carries at least one tool call, end_turn otherwise.
C21_StreamForwarded ==
    pc # "streaming" =>
        /\ forwarded = ArrivedTexts
        /\ EventCount("chunk") = Len(forwarded)
        /\ Len(FinalMessages) = 1
        /\ LogCount("push", "assistant") = 1
        /\ FinalMessages[1].content = Raw(Concat(forwarded))
        /\ EventCount("message_complete") = 1
        /\ pc = "returned" =>
              /\ Cardinality({ i \in DOMAIN log : log[i].op = "return" }) = 1
              /\ log[Len(log)].op = "return"
              /\ log[Len(log)].type =
                    (IF CarriesToolCalls(FinalMessages[1]) THEN "tool_use" ELSE "end_turn")

C21_Witness ==
    /\ pc = "returned"
    /\ Len(forwarded) = 2
    /\ Len(Consumed) < Len(providerStream)
    /\ providerStream[Len(providerStream)].content # <<>>
    /\ CarriesToolCalls(FinalMessages[1])
    /\ log[Len(log)].type = "tool_use"

-----------------------------------------------------------------------------
\* when a message was produced: the user message first, any other message at
\* its push to the working list
Produced(e) ==
    IF e.type = "user" THEN 0
    ELSE CHOOSE p \in DOMAIN log : log[p] = Entry("push", e.type, e.id)

\* C22: within one request the messages reach the message store in the order
\* they were produced (the user message, each assistant message before the
\* tool results of its calls, then the next assistant message), whatever the
\* order in which the store settles the appends in flight: the stored order
\* is the order of the working list.
C22_StoredInOrder ==
    \A i \in DOMAIN log :
        log[i].op = "stored" =>
            \A j \in (i + 1)..Len(log) :
                log[j].op = "stored" => Produced(log[i]) < Produced(log[j])

\* C23: persistence never blocks the live stream: while an append is in
\* flight the request can always take its next step without the store
\* settling anything, so the turn reaches end_turn even when an append never
\* completes.
C23_PersistenceNeverBlocks ==
    (pending # <<>> /\ pc \notin {"done", "failed"}) => ENABLED RequestStep

-----------------------------------------------------------------------------
\* the tool calls whose response was an error of a type
ErrorReturned(type) ==
    { log[i].id : i \in { j \in DOMAIN log : log[j] = Entry("toolResponse", type, log[j].id) } }

AuthRequiredSent(id) == \E i \in DOMAIN log : log[i] = Sent("auth_required", id)

\* the tool message of a call in the working list
ToolMessageOf(id) ==
    SelectSeq(conversationHistory,
              LAMBDA m : m.role = "tool" /\ m.tool_call_id = id)

\* C24: an auth_required event is sent for a tool call exactly when the
\* response of the call is an error of type auth_required; a tool failure of
\* any other type sends none, and its error text is in the working list, as
\* a tool message of that call, for the next completion call.
C24_AuthRequiredIffAuthError ==
    /\ \A i \in DOMAIN log :
          log[i].op = "toolResponse" =>
              (AuthRequiredSent(log[i].id) <=> log[i].type = "auth_required")
    /\ EventCount("auth_required") = Cardinality(ErrorReturned("auth_required"))
    /\ \A i \in DOMAIN log :
          log[i].op = "send" /\ log[i].type = "auth_required" =>
              log[i].id \in ErrorReturned("auth_required")
    /\ \A id \in ErrorReturned("other") :
          ToolMessageOf(id) = << [role |-> "tool", tool_call_id |-> id,
                                  content |-> Raw(<<"Error: ", "denied">>)] >>

C24_Witness ==
    /\ pc = "loop"
    /\ ErrorReturned("auth_required") # {}
    /\ ErrorReturned("other") # {}
    /\ EventCount("auth_required") = 1

-----------------------------------------------------------------------------
ProductEvents == SelectSeq(stream, LAMBDA e : e.type = "product_results")

\* the products a tool message of the working list holds: the result of a
\* successful search_shop_catalog call is the catalog's JSON text
ReturnedProducts(m) ==
    IF m.role # "tool" THEN <<>>
    ELSE IF m.content.k # "json" THEN <<>>
    ELSE IF m.content.v.t # "object" THEN <<>>
    ELSE IF "products" \notin DOMAIN m.content.v.fields THEN <<>>
    ELSE m.content.v.fields.products

\* what a call contributes: its first products, the configured maximum at most
Contribution(m) ==
    LET ps == ReturnedProducts(m)
        n == IF Len(ps) < maxProductsToDisplay THEN Len(ps) ELSE maxProductsToDisplay
    IN  [i \in 1..n |-> [id |-> ps[i].product_id]]

\* the contributions of the calls in dispatch order
RECURSIVE Accumulated(_)
Accumulated(msgs) ==
    IF msgs = <<>> THEN <<>>
    ELSE Contribution(Head(msgs)) \o Accumulated(Tail(msgs))

\* C25: at most one product_results event is sent per request; a request
\* that reaches the end of its turn sends it exactly when at least one
\* product was accumulated (a request that ends with an exception sends
\* none); the event carries the full accumulated set: the products of every
\* successful search_shop_catalog call, in dispatch order, each call
\* contributing at most maxProductsToDisplay products.
C25_ProductResultsOnce ==
    /\ Len(ProductEvents) <= 1
    /\ productsToDisplay = Accumulated(conversationHistory)
    /\ pc = "done" => (Len(ProductEvents) = 1 <=> Len(productsToDisplay) > 0)
    /\ pc # "done" => ProductEvents = <<>>
    /\ ProductEvents # <<>> =>
          ProductEvents[1].products = Accumulated(conversationHistory)
    /\ \A i \in DOMAIN productsToDisplay :
          productsToDisplay[i].id[2] <= maxProductsToDisplay

C25_Witness ==
    /\ pc = "done"
    /\ Len(ProductEvents) = 1
    /\ Len(ProductEvents[1].products) = 3 + maxProductsToDisplay
    /\ \E m \in { conversationHistory[i] : i \in DOMAIN conversationHistory } :
          Len(ReturnedProducts(m)) > maxProductsToDisplay

-----------------------------------------------------------------------------
\* the calls of search_shop_catalog whose payload did not parse: their tool
\* message in the working list is the unparsed text
UnparsedPayload(m) ==
    IF m.role # "tool" THEN FALSE
    ELSE IF m.content.k # "raw" THEN FALSE
    ELSE m.content.s = <<"oops">>

\* the save of the result of that call is still awaited
SaveAwaited(id) == pc = "saveTool" /\ toolCalls[tcIndex].id = id

\* C26: a payload of search_shop_catalog that does not parse never aborts or
\* changes the turn: the call adds no product, its tool result is in the
\* working list, new_message is sent for it once its save was awaited, and
\* the request does not end with an exception of the store.
C26_ParseFailureHarmless ==
    \A k \in DOMAIN conversationHistory :
        UnparsedPayload(conversationHistory[k]) =>
            LET id == conversationHistory[k].tool_call_id
            IN  /\ \A i \in DOMAIN productsToDisplay : productsToDisplay[i].id[1] # id
                /\ \E i \in DOMAIN log : log[i] = Entry("push", "tool", id)
                /\ SaveAwaited(id) \/ \E i \in DOMAIN log : log[i] = Sent("new_message", id)
                /\ failure # "store"

-----------------------------------------------------------------------------
\* a marker of a tool call in a stored array: the type the filter names, or
\* the type of the tool calls onMessage stores
IsToolCallMarker(item) == ItemType(item) \in {"tool_use", "function"}
IsToolResultMarker(item) == ItemType(item) = "tool_result"

\* an assistant message whose whole content is tool-call markers
ToolCallOnly(msg) ==
    IF msg.role # "assistant" \/ ~JSONParseOk(msg.content) THEN FALSE
    ELSE LET content == JSONParse(msg.content)
         IN  IF content.t # "array" THEN FALSE
             ELSE SelectSeq(content.items, IsToolCallMarker) = content.items

\* a user message that echoes tool results
ToolResultEcho(msg) ==
    IF msg.role # "user" \/ ~JSONParseOk(msg.content) THEN FALSE
    ELSE LET content == JSONParse(msg.content)
         IN  IF content.t # "array" THEN FALSE
             ELSE SelectSeq(content.items, IsToolResultMarker) # <<>>

\* the drop policy of the truncated history
SurvivesDropPolicy(msg) ==
    /\ msg.role \in {"user", "assistant"}
    /\ ~ToolCallOnly(msg)
    /\ ~ToolResultEcho(msg)

\* C27: the list getTruncatedHistory returns is, in stored order, exactly
\* the last min(4, n) of the n stored messages that survive the drop policy
\* (role user or assistant, not an assistant message of tool calls only, not
\* a user message echoing tool results), each in its format for the
\* completion call.
C27_LastSurvivors ==
    pc = "truncated" =>
        LET survivors == SelectSeq(store, SurvivesDropPolicy)
            n == Len(survivors)
            first == IF n <= 4 THEN 1 ELSE n - 3
        IN  conversationHistory =
                [i \in 1..(n - first + 1) |-> FormatForOpenAI(survivors[first + i - 1])]

-----------------------------------------------------------------------------
\* C28: addToolResultToHistory, called directly or through handleToolError
\* or handleToolSuccess, leaves the conversationHistory it is handed
\* unchanged: the result goes to the message store only (one tool message
\* appended when the save succeeds, nothing otherwise), and a failed save is
\* caught and does not leave the call as an exception.
C28_WorkingHistoryUntouched ==
    [][/\ conversationHistory' = conversationHistory
       /\ failure' = "none"
       /\ \/ store' = store
          \/ /\ Len(store') = Len(store) + 1
             /\ SubSeq(store', 1, Len(store)) = store
             /\ store'[Len(store')].role = "tool"
       /\ (store' # store) <=>
             \E i \in (Len(log) + 1)..Len(log') : log'[i] = Entry("save", "tool", <<1>>)
      ]_vars

C28_Witness ==
    /\ pc = "toolService"
    /\ conversationHistory # <<>>
    /\ \E i \in DOMAIN log : log[i] = Entry("save", "tool", <<0>>)
    /\ \E i \in DOMAIN log : log[i] = Entry("save", "tool", <<1>>)
    /\ store # <<>> /\ store[Len(store)].role = "tool"
    /\ failure = "none"

-----------------------------------------------------------------------------
\* a message of the working list that is the user message of this request
IsNewUserMessage(m) ==
    IF m.role # "user" THEN FALSE
    ELSE IF m.content.k # "raw" THEN FALSE
    ELSE m.content = userMessage

\* C29: the message list handed to the first completion call of a request
\* holds the new user message exactly once, as its last element, after at
\* most 4 messages of earlier turns: the copy persisted before the load is
\* not loaded back as a second copy.
C29_UserMessageOnce ==
    (pc = "loop" /\ iteration = 0) =>
        /\ conversationHistory # <<>>
        /\ IsNewUserMessage(conversationHistory[Len(conversationHistory)])
        /\ Len(SelectSeq(conversationHistory, IsNewUserMessage)) = 1
        /\ Len(conversationHistory) - 1 <= HistoryWindow

-----------------------------------------------------------------------------
\* C30: the id event is the first event of the stream and is sent exactly
\* once per request; it precedes every append to the message store, the
\* connection to the tool servers and every completion call of the request.
C30_IdFirst ==
    /\ EventCount("id") <= 1
    /\ pc # "start" => EventCount("id") = 1
    /\ stream # <<>> => stream[1].type = "id"
    /\ log # <<>> => log[1] = Sent("id", NoId)
    /\ \A i \in DOMAIN log :
          log[i].op \in {"connect", "save", "completion", "callTool", "load", "push"}
              => i > 1 /\ EventCount("id") = 1
    /\ EventCount("id") = 0 =>
          /\ pc = "start"
          /\ store \in InitialStores
          /\ ~mcpTools
          /\ iteration = 0

C30_Witness ==
    /\ pc = "done"
    /\ EventCount("id") = 1
    /\ stream[1].type = "id"
    /\ LogCount("connect", "ok") = 1
    /\ LogCount("save", "user") = 1
    /\ CompletionCalls > 1
    /\ Len(stream) > 4

-----------------------------------------------------------------------------
\* the connection to the tool servers failed in this request
ConnectFailed == \E i \in DOMAIN log : log[i] = Entry("connect", "failed", NoId)

\* the request has gone past the append of its user message
PastUserSave == pc \notin {"start", "connect", "saveUser"}

\* C31: a failed connection to a tool server does not abort the request:
\* the failure is caught, the user message is still persisted, the loop
\* still makes its completion calls, and the request ends with end_turn
\* (only a failed completion call ends it otherwise).
C31_ConnectFailureHarmless ==
    ConnectFailed =>
        /\ pc = "failed" => failure = "provider"
        /\ PastUserSave =>
              /\ \E i \in DOMAIN log : log[i] = Entry("save", "user", <<1>>)
              /\ \E i \in DOMAIN store : IsNewUserMessage(store[i])
        /\ pc \in {"end", "done"} => CompletionCalls > 0
        /\ pc = "done" => EventCount("end_turn") = 1

=============================================================================
